---- MODULE Spec2Model ----
(***************************************************************************)
(* Admission / discharge / room-allocation workflow of app.py.             *)
(*                                                                         *)
(* The store holds the committed Room and Admission tables.  Every browser *)
(* session runs the Streamlit script; a script run that admits or          *)
(* discharges reads the store with run_query and then writes it with       *)
(* execute_transaction.  Reads see committed rows only; the statements of  *)
(* a transaction are held by the session until its commit applies them     *)
(* together; an UPDATE holds the row it wrote until commit or rollback.    *)
(* The Notes column is free text that no statement reads; it is left out.  *)
(***************************************************************************)
EXTENDS Integers, FiniteSets, Sequences, TLC

\* ---- bounds ----
NumSessions == 2
NumRooms == 2
NumPatients == 1
NumDoctors == 1
MaxDate == 2
MaxAdmissions == 2
MaxHour == 1
MaxAppointmentDate == 1
MaxNewPatients == 1
MaxNewDoctors == 1
MaxAppointments == 2
MaxTextLen == 2

Sessions == 1..NumSessions
RoomIDs == 1..NumRooms
Patients == 1..NumPatients
Doctors == 1..NumDoctors
Dates == 1..MaxDate
Hours == 1..MaxHour
AppointmentDates == 1..MaxAppointmentDate
\* values of a name field
Names == {"Ann", "Bob"}

\* st.selectbox("Room Type", ["General", "Private", "ICU"])
RoomTypes == {"General", "Private", "ICU"}

\* The Room table as installed: odd rooms are ICU, even rooms General, and
\* no Private room exists; room numbers are unique.
InitialRoomType(r) == IF r % 2 = 1 THEN "ICU" ELSE "General"
InitialRoomNumber(r) == 100 + r

VARIABLES rooms, admissions, nextId, sess, patients, doctors, appointments,
          status_before_admit
directory == <<patients, doctors, appointments>>
\* status_before_admit[a] records the Status the Room of admission a had in
\* the store right before the transaction that created a committed.
vars == <<rooms, admissions, nextId, sess, patients, doctors, appointments,
          status_before_admit>>

\* Local state of a session between two script runs.
IdleLocals(res) ==
    [pc |-> "idle", patient |-> 0, doctor |-> 0, room_type |-> "", room |-> 0,
     date |-> 0, hour |-> 0, adm |-> 0, result |-> res]

Init ==
    /\ rooms = [r \in RoomIDs |->
                 [RoomNumber |-> InitialRoomNumber(r),
                  RoomType |-> InitialRoomType(r),
                  Status |-> "Available"]]
    /\ admissions = << >>
    /\ nextId = 1
    /\ sess = [s \in Sessions |-> IdleLocals("")]
    /\ patients = [p \in Patients |-> [FirstName |-> "Ann"]]
    /\ doctors = [d \in Doctors |-> [FirstName |-> "Ann"]]
    /\ appointments = << >>
    /\ status_before_admit = << >>

\* ---- row locks held by open transactions ----
RoomLockedBy(s, r) ==
    /\ sess[s].pc \in {"admit_updated", "dis_room_updated"}
    /\ sess[s].room = r
AdmissionLockedBy(s, a) ==
    /\ sess[s].pc \in {"dis_adm_updated", "dis_room_updated"}
    /\ sess[s].adm = a
RoomFreeFor(s, r) == \A o \in Sessions \ {s} : ~RoomLockedBy(o, r)
AdmissionFreeFor(s, a) == \A o \in Sessions \ {s} : ~AdmissionLockedBy(o, a)

\* ---- Room Allocator ----
\* SELECT RoomID, RoomNumber FROM Room WHERE RoomType = ? AND Status = 'Available'
find_available_any_status(room_type) ==
    {r \in RoomIDs : rooms[r].RoomType = room_type}
find_available(room_type) ==
    {r \in RoomIDs : rooms[r].RoomType = room_type /\ rooms[r].Status = "Available"}

\* available_rooms[available_rooms['RoomNumber'] == selected_room]['RoomID'].iloc[0]
RoomIdByNumber(avail, number) ==
    CHOOSE r \in avail : /\ rooms[r].RoomNumber = number
                         /\ \A q \in avail : rooms[q].RoomNumber = number => r <= q

\* UPDATE Room SET Status = 'Occupied' WHERE RoomID = ?
mark_occupied_separately(rms, room_id) == rms
mark_occupied(rms, room_id) == [rms EXCEPT ![room_id].Status = "Occupied"]
\* UPDATE Room SET Status = 'Available' WHERE RoomID = ?
mark_available_separately(rms, room_id) == rms
mark_available(rms, room_id) == [rms EXCEPT ![room_id].Status = "Available"]

\* INSERT INTO Admission (...) VALUES (?, ?, ?, ?, 'Admitted', ?)
NewAdmissionByRoomNumber(patient_id, doctor_id, room_id, admission_date) ==
    [PatientID |-> patient_id, DoctorID |-> doctor_id,
     RoomID |-> rooms[room_id].RoomNumber,
     AdmissionDate |-> admission_date, DischargeDate |-> 0, Status |-> "Admitted"]
NewAdmissionOtherPatient(patient_id, doctor_id, room_id, admission_date) ==
    [PatientID |-> 0, DoctorID |-> doctor_id, RoomID |-> room_id,
     AdmissionDate |-> admission_date, DischargeDate |-> 0, Status |-> "Admitted"]
NewAdmission(patient_id, doctor_id, room_id, admission_date) ==
    [PatientID |-> patient_id, DoctorID |-> doctor_id, RoomID |-> room_id,
     AdmissionDate |-> admission_date, DischargeDate |-> 0, Status |-> "Admitted"]
InsertAdmissionReplacing(adms, id, row) ==
    [a \in {id} |-> row]
InsertAdmission(adms, id, row) ==
    [a \in (DOMAIN adms) \cup {id} |-> IF a = id THEN row ELSE adms[a]]

\* UPDATE Admission SET Status = 'Discharged', DischargeDate = CAST(? AS DATE)
\* WHERE AdmissionID = ?
DischargeAdmissionToggled(adms, admission_id, discharge_date) ==
    [a \in DOMAIN adms |->
        IF a = admission_id
        THEN [adms[a] EXCEPT
                 !.Status = IF @ = "Admitted" THEN "Discharged" ELSE "Admitted",
                 !.DischargeDate = discharge_date]
        ELSE adms[a]]
DischargeAdmissionClearsRoom(adms, admission_id, discharge_date) ==
    [a \in DOMAIN adms |->
        IF a = admission_id
        THEN [adms[a] EXCEPT !.Status = "Discharged",
                             !.DischargeDate = discharge_date,
                             !.RoomID = 0]
        ELSE adms[a]]
DischargeAdmissionNoWhere(adms, admission_id, discharge_date) ==
    [a \in DOMAIN adms |->
        [adms[a] EXCEPT !.Status = "Discharged", !.DischargeDate = discharge_date]]
DischargeAdmission(adms, admission_id, discharge_date) ==
    [a \in DOMAIN adms |->
        IF a = admission_id
        THEN [adms[a] EXCEPT !.Status = "Discharged", !.DischargeDate = discharge_date]
        ELSE adms[a]]

\* ---- create_new_admission ----
\* The script run queries the available rooms of the chosen type; the
\* selectbox yields one of them, or there is none (also when the query fails,
\* run_query then returns an empty frame).
AdmitQueryRooms(s) ==
    /\ sess[s].pc = "idle"
    /\ \E room_type \in RoomTypes, query_ok \in BOOLEAN :
         LET available_rooms == IF query_ok THEN find_available(room_type) ELSE {}
         IN IF available_rooms = {}
            THEN sess' = [sess EXCEPT ![s] =
                      [IdleLocals("") EXCEPT !.pc = "admit_form",
                                             !.room_type = room_type]]
            ELSE \E sel \in available_rooms :
                   sess' = [sess EXCEPT ![s] =
                      [IdleLocals("") EXCEPT
                          !.pc = "admit_form",
                          !.room_type = room_type,
                          !.room = RoomIdByNumber(available_rooms, rooms[sel].RoomNumber)]]
    /\ UNCHANGED <<rooms, admissions, nextId, directory, status_before_admit>>

\* "Admit Patient" with no selected room: error message and return.
AdmitNoRoom(s) ==
    /\ sess[s].pc = "admit_form"
    /\ sess[s].room = 0
    /\ sess' = [sess EXCEPT ![s] = IdleLocals("NoCapacity")]
    /\ UNCHANGED <<rooms, admissions, nextId, directory, status_before_admit>>

\* "Admit Patient" with a room: execute_transaction opens the connection and
\* runs the INSERT, which draws the next identity value.
AdmitInsert(s) ==
    /\ sess[s].pc = "admit_form"
    /\ sess[s].room # 0
    /\ nextId <= MaxAdmissions
    /\ \E patient_id \in DOMAIN patients, doctor_id \in DOMAIN doctors,
          admission_date \in Dates :
         sess' = [sess EXCEPT ![s].pc = "admit_inserted",
                              ![s].patient = patient_id,
                              ![s].doctor = doctor_id,
                              ![s].date = admission_date,
                              ![s].adm = nextId]
    /\ nextId' = nextId + 1
    /\ UNCHANGED <<rooms, admissions, directory, status_before_admit>>

\* Second statement: UPDATE Room; waits while another transaction holds the row.
AdmitUpdateRoom(s) ==
    /\ sess[s].pc = "admit_inserted"
    /\ RoomFreeFor(s, sess[s].room)
    /\ sess' = [sess EXCEPT ![s].pc = "admit_updated"]
    /\ UNCHANGED <<rooms, admissions, nextId, directory, status_before_admit>>

\* conn.commit(): both statements reach the store together.
AdmitCommit(s) ==
    /\ sess[s].pc = "admit_updated"
    /\ admissions' = InsertAdmission(admissions, sess[s].adm,
                        NewAdmission(sess[s].patient, sess[s].doctor,
                                     sess[s].room, sess[s].date))
    /\ rooms' = mark_occupied(rooms, sess[s].room)
    /\ status_before_admit' =
          [a \in (DOMAIN status_before_admit) \cup {sess[s].adm} |->
              IF a = sess[s].adm THEN rooms[sess[s].room].Status
              ELSE status_before_admit[a]]
    /\ sess' = [sess EXCEPT ![s] = IdleLocals("Committed")]
    /\ UNCHANGED <<nextId, directory>>

\* ---- manage_discharges / process_discharge ----
\* The discharge list shows the admissions with Status = 'Admitted'; the
\* user presses "Process Discharge" on one of them.
DischargeList(s) ==
    /\ sess[s].pc = "idle"
    /\ \E a \in DOMAIN admissions :
         /\ admissions[a].Status = "Admitted"
         /\ sess' = [sess EXCEPT ![s] = [IdleLocals("") EXCEPT !.pc = "dis_clicked", !.adm = a]]
    /\ UNCHANGED <<rooms, admissions, nextId, directory, status_before_admit>>

\* process_discharge: SELECT RoomID FROM Admission WHERE AdmissionID = ?
\* An empty frame (the query failed) falls through the if: no return value.
DischargeLookupBlindUpdate(s) ==
    /\ sess[s].pc = "dis_clicked"
    /\ \E discharge_date \in Dates, query_ok \in BOOLEAN :
         IF query_ok
         THEN /\ sess' = [sess EXCEPT ![s].pc = "dis_looked_up",
                                      ![s].date = discharge_date,
                                      ![s].room = admissions[sess[s].adm].RoomID]
              /\ UNCHANGED admissions
         ELSE /\ sess' = [sess EXCEPT ![s] = IdleLocals("None")]
              /\ admissions' = DischargeAdmission(admissions, sess[s].adm, discharge_date)
    /\ UNCHANGED <<rooms, nextId, directory, status_before_admit>>
DischargeLookup(s) ==
    /\ sess[s].pc = "dis_clicked"
    /\ \E discharge_date \in Dates, query_ok \in BOOLEAN :
         IF query_ok
         THEN sess' = [sess EXCEPT ![s].pc = "dis_looked_up",
                                   ![s].date = discharge_date,
                                   ![s].room = admissions[sess[s].adm].RoomID]
         ELSE sess' = [sess EXCEPT ![s] = IdleLocals("None")]
    /\ UNCHANGED <<rooms, admissions, nextId, directory, status_before_admit>>

\* First statement: UPDATE Admission.
DischargeUpdateAdmission(s) ==
    /\ sess[s].pc = "dis_looked_up"
    /\ AdmissionFreeFor(s, sess[s].adm)
    /\ sess' = [sess EXCEPT ![s].pc = "dis_adm_updated"]
    /\ UNCHANGED <<rooms, admissions, nextId, directory, status_before_admit>>

\* Second statement: UPDATE Room.
DischargeUpdateRoom(s) ==
    /\ sess[s].pc = "dis_adm_updated"
    /\ RoomFreeFor(s, sess[s].room)
    /\ sess' = [sess EXCEPT ![s].pc = "dis_room_updated"]
    /\ UNCHANGED <<rooms, admissions, nextId, directory, status_before_admit>>

DischargeCommit(s) ==
    /\ sess[s].pc = "dis_room_updated"
    /\ admissions' = DischargeAdmission(admissions, sess[s].adm, sess[s].date)
    /\ rooms' = mark_available(rooms, sess[s].room)
    /\ sess' = [sess EXCEPT ![s] = IdleLocals("Committed")]
    /\ UNCHANGED <<nextId, directory, status_before_admit>>

\* ---- execute_transaction, failure path ----
\* The connection, a statement or the commit raises: rollback, return False.
\* Nothing of the transaction reaches the store.
InTransaction(s) ==
    sess[s].pc \in {"admit_form", "admit_inserted", "admit_updated",
                    "dis_looked_up", "dis_adm_updated", "dis_room_updated"}
TransactionFailsKeepsInsert(s) ==
    /\ InTransaction(s)
    /\ sess[s].pc = "admit_form" => sess[s].room # 0
    /\ sess' = [sess EXCEPT ![s] = IdleLocals("Failed")]
    /\ admissions' =
          IF sess[s].pc \in {"admit_inserted", "admit_updated"}
          THEN InsertAdmission(admissions, sess[s].adm,
                  NewAdmission(sess[s].patient, sess[s].doctor, sess[s].room, sess[s].date))
          ELSE admissions
    /\ UNCHANGED <<rooms, nextId, directory, status_before_admit>>
TransactionFailsKeepsUpdate(s) ==
    /\ InTransaction(s)
    /\ sess[s].pc = "admit_form" => sess[s].room # 0
    /\ sess' = [sess EXCEPT ![s] = IdleLocals("Failed")]
    /\ admissions' =
          IF sess[s].pc \in {"dis_adm_updated", "dis_room_updated"}
          THEN DischargeAdmission(admissions, sess[s].adm, sess[s].date)
          ELSE admissions
    /\ UNCHANGED <<rooms, nextId, directory, status_before_admit>>
TransactionFailsRetries(s) ==
    /\ InTransaction(s)
    /\ sess[s].pc \in {"admit_inserted", "admit_updated",
                       "dis_adm_updated", "dis_room_updated"}
    /\ sess' = [sess EXCEPT ![s].pc =
                   IF sess[s].pc \in {"admit_inserted", "admit_updated"}
                   THEN "admit_form" ELSE "dis_looked_up"]
    /\ UNCHANGED <<rooms, admissions, nextId, directory, status_before_admit>>
TransactionFails(s) ==
    /\ InTransaction(s)
    /\ sess[s].pc = "admit_form" => sess[s].room # 0
    /\ sess' = [sess EXCEPT ![s] = IdleLocals("Failed")]
    /\ UNCHANGED <<rooms, admissions, nextId, directory, status_before_admit>>

\* ---- SQL text built by string formatting ----
\* A text input is a sequence of tokens: an ordinary character, a single
\* quote, or the tail  ); UPDATE Room SET Status = <status> WHERE RoomID =
\* <room> --  typed by the user.
CharToken == [t |-> "char", room |-> 0, status |-> ""]
QuoteToken == [t |-> "quote", room |-> 0, status |-> ""]
TailTokens ==
    {[t |-> "tail", room |-> r, status |-> st] :
        r \in RoomIDs, st \in {"Available", "Occupied"}}
Tokens == {CharToken, QuoteToken} \cup TailTokens
RECURSIVE TextsOfLen(_)
TextsOfLen(n) ==
    IF n = 0 THEN {<< >>}
    ELSE {Append(t, k) : t \in TextsOfLen(n - 1), k \in Tokens}
Texts == UNION {TextsOfLen(n) : n \in 0..MaxTextLen}

\* f"... '{address}')" : the text is pasted between two quotes.
FormatLiteral(text) == <<QuoteToken>> \o text \o <<QuoteToken>>

\* What the server makes of the pasted text: a quote opens or closes the
\* literal; a character outside a literal, a tail inside one and an open
\* literal at the end are syntax errors; a tail after a closed literal ends
\* the INSERT, is executed as a second statement of the batch and comments
\* out the rest.
RECURSIVE ScanSql(_, _, _)
ScanSql(toks, i, in_literal) ==
    IF i > Len(toks)
    THEN [valid |-> ~in_literal, injected |-> << >>]
    ELSE IF toks[i].t = "quote" THEN ScanSql(toks, i + 1, ~in_literal)
    ELSE IF toks[i].t = "char"
         THEN IF in_literal THEN ScanSql(toks, i + 1, in_literal)
              ELSE [valid |-> FALSE, injected |-> << >>]
    ELSE IF in_literal THEN [valid |-> FALSE, injected |-> << >>]
         ELSE [valid |-> TRUE, injected |-> <<toks[i]>>]

\* The batch after the INSERT: the injected UPDATE Room statements.
RECURSIVE ExecuteInjected(_, _)
ExecuteInjected(rms, stmts) ==
    IF stmts = << >> THEN rms
    ELSE ExecuteInjected([rms EXCEPT ![Head(stmts).room].Status = Head(stmts).status],
                         Tail(stmts))

\* ---- patient and doctor directory ----
\* The message these forms show is not kept: a session is idle before and
\* after each of them.
\* show_add_patient_form: INSERT INTO Patient built with an f-string and run
\* by execute_query (one batch, one commit).
AddPatient(s) ==
    /\ sess[s].pc = "idle"
    /\ Cardinality(DOMAIN patients) < NumPatients + MaxNewPatients
    /\ \E first_name \in Names, address \in Texts, connected \in BOOLEAN :
         LET batch == ScanSql(FormatLiteral(address), 1, FALSE)
             id == Cardinality(DOMAIN patients) + 1
         IN IF connected /\ batch.valid
            THEN /\ patients' = [p \in (DOMAIN patients) \cup {id} |->
                                   IF p = id THEN [FirstName |-> first_name]
                                   ELSE patients[p]]
                 /\ rooms' = ExecuteInjected(rooms, batch.injected)
            ELSE UNCHANGED <<patients, rooms>>
    /\ UNCHANGED <<admissions, nextId, sess, doctors, appointments, status_before_admit>>

\* edit_patient: parameterized UPDATE Patient.
EditPatient(s) ==
    /\ sess[s].pc = "idle"
    /\ \E patient_id \in DOMAIN patients, first_name \in Names, connected \in BOOLEAN :
         IF connected
         THEN patients' = [patients EXCEPT ![patient_id].FirstName = first_name]
         ELSE UNCHANGED patients
    /\ UNCHANGED <<rooms, admissions, nextId, sess, doctors, appointments, status_before_admit>>

\* show_add_doctor_form: parameterized INSERT INTO Doctor.
AddDoctor(s) ==
    /\ sess[s].pc = "idle"
    /\ Cardinality(DOMAIN doctors) < NumDoctors + MaxNewDoctors
    /\ \E first_name \in Names, connected \in BOOLEAN :
         LET id == Cardinality(DOMAIN doctors) + 1
         IN IF connected
            THEN /\ doctors' = [d \in (DOMAIN doctors) \cup {id} |->
                                  IF d = id THEN [FirstName |-> first_name]
                                  ELSE doctors[d]]
            ELSE UNCHANGED doctors
    /\ UNCHANGED <<rooms, admissions, nextId, sess, patients, appointments, status_before_admit>>

\* edit_doctor: parameterized UPDATE Doctor.
EditDoctor(s) ==
    /\ sess[s].pc = "idle"
    /\ \E doctor_id \in DOMAIN doctors, first_name \in Names, connected \in BOOLEAN :
         IF connected
         THEN doctors' = [doctors EXCEPT ![doctor_id].FirstName = first_name]
         ELSE UNCHANGED doctors
    /\ UNCHANGED <<rooms, admissions, nextId, sess, patients, appointments, status_before_admit>>

\* ---- appointments ----
\* SELECT AppointmentID FROM Appointment WHERE DoctorID = .. AND
\* CAST(AppointmentDate AS DATE) = .. AND DATEPART(HOUR, ..) = ..
\* AND Status != 'Cancelled'
Conflicts(doctor_id, appointment_date, hour) ==
    {a \in DOMAIN appointments :
        /\ appointments[a].DoctorID = doctor_id
        /\ appointments[a].Date = appointment_date
        /\ appointments[a].Hour = hour
        /\ appointments[a].Status # "Cancelled"}

\* schedule_appointment, up to the conflict check; a failed query is an
\* empty frame, which reads as "no conflict".
ScheduleCheck(s) ==
    /\ sess[s].pc = "idle"
    /\ \E patient_id \in DOMAIN patients, doctor_id \in DOMAIN doctors,
          appointment_date \in AppointmentDates, hour \in Hours, query_ok \in BOOLEAN :
         LET conflicts == IF query_ok
                          THEN Conflicts(doctor_id, appointment_date, hour) ELSE {}
         IN IF conflicts # {}
            THEN UNCHANGED sess
            ELSE sess' = [sess EXCEPT ![s] =
                     [IdleLocals("") EXCEPT !.pc = "appt_checked",
                                            !.patient = patient_id,
                                            !.doctor = doctor_id,
                                            !.date = appointment_date,
                                            !.hour = hour]]
    /\ UNCHANGED <<rooms, admissions, nextId, directory, status_before_admit>>

\* INSERT INTO Appointment (...) VALUES (?, ?, ?, 'Scheduled')
ScheduleInsert(s) ==
    /\ sess[s].pc = "appt_checked"
    /\ Cardinality(DOMAIN appointments) < MaxAppointments
    /\ \E connected \in BOOLEAN :
         LET id == Cardinality(DOMAIN appointments) + 1
         IN IF connected
            THEN /\ appointments' =
                       [a \in (DOMAIN appointments) \cup {id} |->
                           IF a = id
                           THEN [PatientID |-> sess[s].patient,
                                 DoctorID |-> sess[s].doctor,
                                 Date |-> sess[s].date,
                                 Hour |-> sess[s].hour,
                                 Status |-> "Scheduled"]
                           ELSE appointments[a]]
            ELSE UNCHANGED appointments
    /\ sess' = [sess EXCEPT ![s] = IdleLocals("")]
    /\ UNCHANGED <<rooms, admissions, nextId, patients, doctors, status_before_admit>>

\* update_appointment_status: UPDATE Appointment SET Status = '<option>'
AppointmentStatuses == {"Scheduled", "Completed", "Cancelled"}
UpdateAppointmentStatus(s) ==
    /\ sess[s].pc = "idle"
    /\ \E appointment_id \in DOMAIN appointments, new_status \in AppointmentStatuses,
          connected \in BOOLEAN :
         IF connected
         THEN appointments' = [appointments EXCEPT ![appointment_id].Status = new_status]
         ELSE UNCHANGED appointments
    /\ UNCHANGED <<rooms, admissions, nextId, sess, patients, doctors, status_before_admit>>

Next ==
    \E s \in Sessions :
        \/ AdmitQueryRooms(s)
        \/ AdmitNoRoom(s)
        \/ AdmitInsert(s)
        \/ AdmitUpdateRoom(s)
        \/ AdmitCommit(s)
        \/ DischargeList(s)
        \/ DischargeLookup(s)
        \/ DischargeUpdateAdmission(s)
        \/ DischargeUpdateRoom(s)
        \/ DischargeCommit(s)
        \/ TransactionFails(s)

Spec == Init /\ [][Next]_vars

\* ---- progress of a script run ----
\* A request runs inside one Streamlit script run: once the button is
\* pressed the run goes on to its next statement, which returns or raises.
\* There is no background task: the start of a request (a user's click) is
\* under no obligation.
RequestStep(s) ==
    \/ AdmitNoRoom(s)
    \/ AdmitInsert(s)
    \/ AdmitUpdateRoom(s)
    \/ AdmitCommit(s)
    \/ DischargeLookup(s)
    \/ DischargeUpdateAdmission(s)
    \/ DischargeUpdateRoom(s)
    \/ DischargeCommit(s)
    \/ TransactionFails(s)

SpecFair == Spec /\ \A s \in Sessions : WF_vars(RequestStep(s))

\* ---- the other write operations, on a store with one admission ----
InitDirectory ==
    /\ rooms = [r \in RoomIDs |->
                 [RoomNumber |-> InitialRoomNumber(r),
                  RoomType |-> InitialRoomType(r),
                  Status |-> IF r = 1 THEN "Occupied" ELSE "Available"]]
    /\ admissions = <<NewAdmission(1, 1, 1, 1)>>
    /\ nextId = 2
    /\ sess = [s \in Sessions |-> IdleLocals("")]
    /\ patients = [p \in Patients |-> [FirstName |-> "Ann"]]
    /\ doctors = [d \in Doctors |-> [FirstName |-> "Ann"]]
    /\ appointments = << >>
    /\ status_before_admit = <<"Available">>

NextDirectory ==
    \E s \in Sessions :
        \/ AddPatient(s)
        \/ EditPatient(s)
        \/ AddDoctor(s)
        \/ EditDoctor(s)
        \/ ScheduleCheck(s)
        \/ ScheduleInsert(s)
        \/ UpdateAppointmentStatus(s)

SpecDirectory == InitDirectory /\ [][NextDirectory]_vars

TypeOK ==
    /\ \A r \in RoomIDs : rooms[r].Status \in {"Available", "Occupied"}
    /\ DOMAIN admissions \subseteq 1..MaxAdmissions
    /\ nextId \in 1..(MaxAdmissions + 1)

\* ---- properties ----
AdmittedIn(r) ==
    {a \in DOMAIN admissions : admissions[a].RoomID = r /\ admissions[a].Status = "Admitted"}
NewIds == (DOMAIN admissions') \ (DOMAIN admissions)

\* C1: in every reachable state a Room is Occupied if and only if exactly
\* one Admission with Status = Admitted references it.
C1_OccupiedIffOneAdmitted ==
    \A r \in RoomIDs : rooms[r].Status = "Occupied" <=> Cardinality(AdmittedIn(r)) = 1

\* C2: in every reachable state every Room has at most one Admission with
\* Status = Admitted.
C2_AtMostOneAdmittedPerRoom ==
    \A r \in RoomIDs : Cardinality(AdmittedIn(r)) <= 1

\* C3: of concurrent admit requests that read the same room as Available,
\* none commits an Admission for a room that already has an Admitted
\* admission.
C3_NoSecondAdmitCommits ==
    [][\A s \in Sessions : AdmitCommit(s) => AdmittedIn(sess[s].room) = {}]_vars

\* C4: the INSERT of the Admission and the UPDATE of its Room to Occupied
\* reach the store in one step: every step that adds an Admission leaves it
\* Admitted with its room Occupied, and every step that turns a room from
\* Available to Occupied adds an Admission for that room.
C4_AdmitWritesTogether ==
    [][/\ \A a \in NewIds :
            /\ admissions'[a].Status = "Admitted"
            /\ rooms'[admissions'[a].RoomID].Status = "Occupied"
       /\ \A r \in RoomIDs :
            (rooms[r].Status = "Available" /\ rooms'[r].Status = "Occupied")
               => \E a \in NewIds : admissions'[a].RoomID = r]_vars
C4_Witness ==
    /\ \E s \in Sessions : sess[s].result = "Committed"
    /\ \E a \in DOMAIN admissions :
          /\ admissions[a].Status = "Admitted"
          /\ rooms[admissions[a].RoomID].Status = "Occupied"
    /\ \E s \in Sessions :
          /\ sess[s].pc = "admit_inserted"
          /\ sess[s].adm \notin DOMAIN admissions
          /\ rooms[sess[s].room].Status = "Available"

\* C5: the UPDATE of the Admission to Discharged and the UPDATE of its Room
\* to Available reach the store in one step: every step that changes an
\* Admission row leaves it Discharged with its room Available, and every
\* step that turns a room from Occupied to Available is the commit of a
\* discharge that leaves its Admission Discharged with its discharge date.
C5_DischargeWritesTogether ==
    [][/\ \A a \in DOMAIN admissions :
            admissions'[a] # admissions[a]
               => /\ admissions'[a].Status = "Discharged"
                  /\ rooms'[admissions[a].RoomID].Status = "Available"
       /\ \A r \in RoomIDs :
            (rooms[r].Status = "Occupied" /\ rooms'[r].Status = "Available")
               => \E s \in Sessions :
                     /\ sess[s].pc = "dis_room_updated"
                     /\ sess[s].room = r
                     /\ admissions'[sess[s].adm].Status = "Discharged"
                     /\ admissions'[sess[s].adm].DischargeDate = sess[s].date]_vars
C5_Witness ==
    /\ \E s \in Sessions : sess[s].result = "Committed"
    /\ \E a \in DOMAIN admissions :
          /\ admissions[a].Status = "Discharged"
          /\ admissions[a].DischargeDate # 0
          /\ rooms[admissions[a].RoomID].Status = "Available"
    /\ \E s \in Sessions :
          /\ sess[s].pc = "dis_adm_updated"
          /\ admissions[sess[s].adm].Status = "Admitted"

\* C6: process_discharge on an admission that is already Discharged is a
\* no-op: its commit leaves every Admission row and every Room unchanged.
C6_SecondDischargeNoOp ==
    [][\A s \in Sessions :
          (DischargeCommit(s) /\ admissions[sess[s].adm].Status = "Discharged")
             => (admissions' = admissions /\ rooms' = rooms)]_vars

\* C7: the status is re-checked inside the transaction: the UPDATE of an
\* Admission is only executed while that admission is Admitted, so of two
\* concurrent discharges of one admission only one writes.
C7_DischargeRechecksStatus ==
    [][\A s \in Sessions :
          DischargeUpdateAdmission(s) => admissions[sess[s].adm].Status = "Admitted"]_vars

\* C8: a committing admit changes exactly one Room, the chosen one, from
\* Available to Occupied, adds exactly one Admission (Admitted, no discharge
\* date, RoomID the chosen room) and changes nothing else.
C8_AdmitCommitEffect ==
    [][\A s \in Sessions :
          AdmitCommit(s) =>
             /\ rooms[sess[s].room].Status = "Available"
             /\ rooms'[sess[s].room].Status = "Occupied"
             /\ \A r \in RoomIDs \ {sess[s].room} : rooms'[r] = rooms[r]
             /\ Cardinality(NewIds) = 1
             /\ \A a \in NewIds :
                   /\ admissions'[a].Status = "Admitted"
                   /\ admissions'[a].DischargeDate = 0
                   /\ admissions'[a].RoomID = sess[s].room
             /\ \A a \in DOMAIN admissions : admissions'[a] = admissions[a]]_vars

\* C9: a committing discharge finds its Admission Admitted and its Room
\* Occupied, and leaves the Admission Discharged with the given discharge
\* date and the Room Available.
C9_DischargeCommitEffect ==
    [][\A s \in Sessions :
          DischargeCommit(s) =>
             /\ admissions[sess[s].adm].Status = "Admitted"
             /\ admissions'[sess[s].adm].Status = "Discharged"
             /\ admissions'[sess[s].adm].DischargeDate = sess[s].date
             /\ rooms[sess[s].room].Status = "Occupied"
             /\ rooms'[sess[s].room].Status = "Available"]_vars

AdmitTxPcs == {"admit_form", "admit_inserted", "admit_updated"}
DischargeTxPcs == {"dis_looked_up", "dis_adm_updated", "dis_room_updated"}
\* s starts the available-room lookup in this step
QueriesRooms(s) == sess[s].pc = "idle" /\ sess'[s].pc = "admit_form"
AvailableOfType(t) ==
    \E r \in RoomIDs : rooms[r].RoomType = t /\ rooms[r].Status = "Available"
OpenInserts == {s \in Sessions : sess[s].pc \in {"admit_inserted", "admit_updated"}}

\* C11: an Admission has no DischargeDate while Admitted, and once it is
\* Discharged no later step changes its Status or its DischargeDate.
C11_MutatedExactlyOnce ==
    [][\A a \in DOMAIN admissions :
          /\ admissions[a].Status = "Admitted" => admissions[a].DischargeDate = 0
          /\ admissions[a].Status = "Discharged"
                => /\ admissions'[a].Status = admissions[a].Status
                   /\ admissions'[a].DischargeDate = admissions[a].DischargeDate]_vars

\* C12: an admit request for a room type without an Available room selects
\* no room, and a request without a room ends with the no-capacity outcome
\* without a transaction: no Admission is added, no Room changes and no
\* identity value is drawn.
C12_NoCapacityNoWrite ==
    [][\A s \in Sessions :
          /\ (QueriesRooms(s) /\ ~AvailableOfType(sess'[s].room_type))
                => sess'[s].room = 0
          /\ (sess[s].pc = "admit_form" /\ sess[s].room = 0 /\ sess'[s] # sess[s])
                => /\ sess'[s].pc = "idle"
                   /\ sess'[s].result = "NoCapacity"
                   /\ UNCHANGED <<rooms, admissions, nextId>>]_vars
C12_Witness ==
    /\ \E s \in Sessions : sess[s].result = "NoCapacity"
    /\ \E s \in Sessions :
          /\ sess[s].pc = "admit_form"
          /\ sess[s].room = 0
          /\ sess[s].room_type = "ICU"
          /\ \E r \in RoomIDs : rooms[r].RoomType = "ICU"
          /\ ~AvailableOfType("ICU")

\* C13: while an Admitted admission holds the only room of a type, every
\* admit request of that type that starts its lookup selects no room.
C13_NoCapacityUntilDischarge ==
    [][\A s \in Sessions :
          QueriesRooms(s) =>
             \A a \in DOMAIN admissions :
                (/\ admissions[a].Status = "Admitted"
                 /\ rooms[admissions[a].RoomID].RoomType = sess'[s].room_type
                 /\ \A r \in RoomIDs :
                       rooms[r].RoomType = sess'[s].room_type => r = admissions[a].RoomID)
                   => sess'[s].room = 0]_vars

\* C14: an admit request whose transaction fails at the INSERT, the UPDATE
\* or the commit reports failure and leaves every Admission and every Room
\* as it was.
C14_FailedAdmitRollsBack ==
    [][\A s \in Sessions :
          (/\ sess[s].pc \in AdmitTxPcs
           /\ sess[s].room # 0
           /\ sess'[s].pc = "idle"
           /\ sess'[s].result # "Committed")
             => /\ sess'[s].result = "Failed"
                /\ admissions' = admissions
                /\ rooms' = rooms]_vars
C14_Witness ==
    /\ \E s \in Sessions : sess[s].result = "Failed"
    /\ nextId - 1 > Cardinality(DOMAIN admissions) + Cardinality(OpenInserts)
    /\ \A r \in RoomIDs : rooms[r].Status = "Available"

C16_LookupFailureNoWrite ==
    [][\A s \in Sessions :
          (sess[s].pc = "dis_clicked" /\ sess'[s].pc = "idle")
             => UNCHANGED <<rooms, admissions, nextId>>]_vars
C16_Witness ==
    \E s \in Sessions :
       /\ sess[s].result = "None"
       /\ \E a \in DOMAIN admissions :
             admissions[a].Status = "Admitted" /\ admissions[a].DischargeDate = 0

\* C17: process_discharge returns a boolean: True only when its transaction
\* committed, False in every other case, the empty lookup included.
C17_DischargeReturnsBool ==
    [][\A s \in Sessions :
          (sess[s].pc \in {"dis_clicked"} \cup DischargeTxPcs /\ sess'[s].pc = "idle")
             => /\ sess'[s].result \in {"Committed", "Failed"}
                /\ sess'[s].result = "Committed"
                      => /\ sess[s].pc = "dis_room_updated"
                         /\ admissions'[sess[s].adm].Status = "Discharged"]_vars

\* C20: the available-room lookup for a type yields exactly the Available
\* rooms of that type: the selected room is one of them, a room is selected
\* whenever there is one, and the lookup writes nothing.
C20_LookupExact ==
    [][\A s \in Sessions :
          QueriesRooms(s) =>
             /\ sess'[s].room # 0
                   => /\ rooms[sess'[s].room].Status = "Available"
                      /\ rooms[sess'[s].room].RoomType = sess'[s].room_type
             /\ AvailableOfType(sess'[s].room_type) => sess'[s].room # 0
             /\ UNCHANGED <<rooms, admissions, nextId>>]_vars

\* C18: admit and discharge are the only writers of Room and Admission
\* rows: a step of any other write operation (add or edit patient, add or
\* edit doctor, schedule appointment, update appointment status) leaves
\* every Room and every Admission unchanged.
C18_OtherWritesLeaveRoomsAndAdmissions ==
    [][(\E s \in Sessions :
           \/ AddPatient(s) \/ EditPatient(s) \/ AddDoctor(s) \/ EditDoctor(s)
           \/ ScheduleCheck(s) \/ ScheduleInsert(s) \/ UpdateAppointmentStatus(s))
          => UNCHANGED <<rooms, admissions>>]_vars

\* C19: a Room's Status only changes in the commit of a transaction that
\* also writes the Admission of that room: the insert of an Admission for
\* the room when it becomes Occupied, the discharge of an Admission of the
\* room when it becomes Available.
C19_RoomStatusOnlyInTransaction ==
    [][\A r \in RoomIDs :
          rooms'[r].Status # rooms[r].Status
             => \/ /\ rooms'[r].Status = "Occupied"
                   /\ \E a \in NewIds : admissions'[a].RoomID = r
                \/ /\ rooms'[r].Status = "Available"
                   /\ \E s \in Sessions :
                         /\ sess[s].pc = "dis_room_updated"
                         /\ sess[s].room = r
                         /\ admissions[sess[s].adm].RoomID = r
                         /\ admissions'[sess[s].adm].Status = "Discharged"]_vars

C22_ReferencesExist ==
    \A a \in DOMAIN admissions :
       /\ admissions[a].PatientID \in DOMAIN patients
       /\ admissions[a].DoctorID \in DOMAIN doctors
       /\ admissions[a].RoomID \in DOMAIN rooms
C22_Witness ==
    \E a \in DOMAIN admissions :
       /\ admissions[a].Status = "Admitted"
       /\ admissions[a].RoomID \in DOMAIN rooms
       /\ rooms[admissions[a].RoomID].Status = "Occupied"
       /\ \E s \in Sessions : sess[s].result = "Committed"

\* C23: a discharge whose date is earlier than the AdmissionDate is rejected
\* without a write, so every Discharged Admission has
\* DischargeDate >= AdmissionDate.
C23_DischargeNotBeforeAdmission ==
    \A a \in DOMAIN admissions :
       admissions[a].Status = "Discharged"
          => admissions[a].DischargeDate >= admissions[a].AdmissionDate

\* C25: a committing discharge never sets a Room Available while a
\* different Admission that is Admitted references that Room.
C25_DischargeKeepsRoomOfOthers ==
    [][\A s \in Sessions :
          DischargeCommit(s) =>
             \A b \in (DOMAIN admissions') \ {sess[s].adm} :
                (admissions'[b].Status = "Admitted" /\ admissions'[b].RoomID = sess[s].room)
                   => rooms'[sess[s].room].Status = "Occupied"]_vars

C27_DischargeFrame ==
    [][\A s \in Sessions :
          DischargeCommit(s) =>
             LET a == sess[s].adm
                 r == admissions[a].RoomID
             IN /\ DOMAIN admissions' = DOMAIN admissions
                /\ \A b \in (DOMAIN admissions) \ {a} : admissions'[b] = admissions[b]
                /\ [admissions'[a] EXCEPT !.Status = admissions[a].Status,
                                          !.DischargeDate = admissions[a].DischargeDate]
                      = admissions[a]
                /\ \A q \in RoomIDs \ {r} : rooms'[q] = rooms[q]
                /\ [rooms'[r] EXCEPT !.Status = rooms[r].Status] = rooms[r]
                /\ patients' = patients
                /\ doctors' = doctors
                /\ appointments' = appointments]_vars
C27_Witness ==
    /\ \E s \in Sessions : sess[s].result = "Committed"
    /\ \E a, b \in DOMAIN admissions :
          /\ admissions[a].Status = "Discharged"
          /\ admissions[b].Status = "Admitted"
          /\ admissions[a].RoomID # admissions[b].RoomID
          /\ rooms[admissions[a].RoomID].Status = "Available"
          /\ rooms[admissions[b].RoomID].Status = "Occupied"

\* the position a request reaches next when its current statement succeeds
SuccessorPc(pc) ==
    CASE pc = "admit_form" -> "admit_inserted"
      [] pc = "admit_inserted" -> "admit_updated"
      [] pc = "dis_clicked" -> "dis_looked_up"
      [] pc = "dis_looked_up" -> "dis_adm_updated"
      [] pc = "dis_adm_updated" -> "dis_room_updated"
      [] OTHER -> "idle"
Outcomes == {"Committed", "Failed", "NoCapacity", "None"}

\* C24: every admit or discharge request, alone or interleaved with the
\* requests of other sessions, eventually ends with exactly one outcome; a
\* request only moves forward through its statements or ends, so a failed
\* transaction is not run again and each request attempts its transaction
\* at most once.
C24_TerminatesOnce ==
    /\ \A s \in Sessions :
          (sess[s].pc # "idle") ~> (sess[s].pc = "idle" /\ sess[s].result \in Outcomes)
    /\ [][\A s \in Sessions :
             /\ (sess[s].pc # "idle" /\ sess'[s] # sess[s])
                   => /\ sess'[s].pc \in {SuccessorPc(sess[s].pc), "idle"}
                      /\ sess'[s].pc = "idle" <=> sess'[s].result \in Outcomes
             /\ (sess[s].pc = "idle" /\ sess'[s] # sess[s])
                   => (sess'[s].pc \in {"admit_form", "dis_clicked"}
                       /\ sess'[s].result = "")]_vars
C24_Witness ==
    \E s, o \in Sessions :
       /\ s # o
       /\ sess[s].result = "Failed"
       /\ sess[o].pc = "admit_updated"
       /\ sess[s].pc = "idle"

\* C28: an admit into room R followed by the discharge of that admission
\* restores the Status of every Room: neither commit touches another Room,
\* and the discharge leaves R with the Status it had before the admit,
\* Available and returned again by the available-room lookup for its type;
\* the Admission row, now Discharged, is the only difference.
C28_RoundTrip ==
    [][\A s \in Sessions :
          /\ AdmitCommit(s) =>
                \A q \in RoomIDs \ {sess[s].room} : rooms'[q] = rooms[q]
          /\ (DischargeCommit(s) /\ admissions[sess[s].adm].Status = "Admitted") =>
                LET a == sess[s].adm
                    r == admissions[a].RoomID
                IN /\ rooms'[r].Status = status_before_admit[a]
                   /\ rooms'[r].Status = "Available"
                   /\ r \in {q \in RoomIDs : /\ rooms'[q].RoomType = rooms[r].RoomType
                                              /\ rooms'[q].Status = "Available"}
                   /\ \A q \in RoomIDs \ {r} : rooms'[q] = rooms[q]
                   /\ \A b \in (DOMAIN admissions) \ {a} : admissions'[b] = admissions[b]
                   /\ admissions'[a].Status = "Discharged"]_vars

AdmittedOf(adms, p) ==
    {a \in DOMAIN adms : adms[a].PatientID = p /\ adms[a].Status = "Admitted"}

\* C29: in every reachable state a Patient has at most one Admission with
\* Status = Admitted.
C29_OneAdmittedPerPatient ==
    \A p \in DOMAIN patients : Cardinality(AdmittedOf(admissions, p)) <= 1

\* C29 (amended): a committing admit adds exactly one Admitted Admission
\* for its patient, also when that patient already has an Admitted
\* Admission; nothing limits a patient to one.
C29_AdmitAddsOneForPatient ==
    [][\A s \in Sessions :
          AdmitCommit(s) =>
             /\ sess[s].adm \notin AdmittedOf(admissions, sess[s].patient)
             /\ AdmittedOf(admissions', sess[s].patient)
                   = AdmittedOf(admissions, sess[s].patient) \cup {sess[s].adm}]_vars
C29_Witness ==
    \E p \in DOMAIN patients :
       /\ Cardinality(AdmittedOf(admissions, p)) = 2
       /\ \A r \in RoomIDs : Cardinality(AdmittedIn(r)) = 1

\* C30: no two Appointments whose Status is not Cancelled have the same
\* DoctorID, the same date and the same hour.
C30_NoDoubleBookedSlot ==
    \A i, j \in DOMAIN appointments :
       (/\ i # j
        /\ appointments[i].Status # "Cancelled"
        /\ appointments[j].Status # "Cancelled"
        /\ appointments[i].DoctorID = appointments[j].DoctorID
        /\ appointments[i].Date = appointments[j].Date)
          => appointments[i].Hour # appointments[j].Hour

====
